---- MODULE Spec2Model ----
(***************************************************************************)
(* NuMarkdown OCR (gui.py): the OCRWorker that runs one recognition on a   *)
(* QThread, and the MainWindow that dispatches workers, receives their     *)
(* queued signals and keeps the session's two log files.                   *)
(*                                                                         *)
(* Strings are sequences of Unicode code points (Python's str): 10 is      *)
(* "\n", 32 is " ", 96 is "`".  Each literal of gui.py is written out as   *)
(* its code points, with the literal in the comment above it.  None and    *)
(* the empty string are both << >> where the code only tests truthiness.   *)
(***************************************************************************)
EXTENDS Integers, Sequences, FiniteSets, TLC

(***************************************************************************)
(* The string literals of gui.py                                           *)
(***************************************************************************)

\* gui.py:41  "ОШИБКА: Модель не передана в рабочий поток!"
NO_MODEL_LOG ==
    << 1054, 1064, 1048, 1041, 1050, 1040, 58, 32, 1052, 1086, 1076, 1077, 1083, 1100, 32, 1085, 1077, 32, 1087, 1077, 1088, 1077, 1076, 1072, 1085, 1072, 32, 1074, 32, 1088, 1072, 1073, 1086, 1095, 1080, 1081, 32, 1087, 1086, 1090, 1086, 1082, 33 >>
\* gui.py:42  "Ошибка: внутренняя ошибка приложения."
INTERNAL_ERROR_MSG ==
    << 1054, 1096, 1080, 1073, 1082, 1072, 58, 32, 1074, 1085, 1091, 1090, 1088, 1077, 1085, 1085, 1103, 1103, 32, 1086, 1096, 1080, 1073, 1082, 1072, 32, 1087, 1088, 1080, 1083, 1086, 1078, 1077, 1085, 1080, 1103, 46 >>
\* gui.py:45  "Открытие изображения..."
OPENING_MSG ==
    << 1054, 1090, 1082, 1088, 1099, 1090, 1080, 1077, 32, 1080, 1079, 1086, 1073, 1088, 1072, 1078, 1077, 1085, 1080, 1103, 46, 46, 46 >>
\* gui.py:54  "Изображение уменьшено до "
RESIZED_PREFIX ==
    << 1048, 1079, 1086, 1073, 1088, 1072, 1078, 1077, 1085, 1080, 1077, 32, 1091, 1084, 1077, 1085, 1100, 1096, 1077, 1085, 1086, 32, 1076, 1086, 32 >>
\* gui.py:56  "Подготовка входных данных..."
PREPARING_MSG ==
    << 1055, 1086, 1076, 1075, 1086, 1090, 1086, 1074, 1082, 1072, 32, 1074, 1093, 1086, 1076, 1085, 1099, 1093, 32, 1076, 1072, 1085, 1085, 1099, 1093, 46, 46, 46 >>
\* gui.py:86  "Input: "
INPUT_PREFIX ==
    << 73, 110, 112, 117, 116, 58, 32 >>
\* gui.py:86  ", Pixels: "
PIXELS_INFIX ==
    << 44, 32, 80, 105, 120, 101, 108, 115, 58, 32 >>
\* gui.py:86  "torch.Size(["
TORCH_SIZE_OPEN ==
    << 116, 111, 114, 99, 104, 46, 83, 105, 122, 101, 40, 91 >>
\* gui.py:86  "])"
TORCH_SIZE_CLOSE ==
    << 93, 41 >>
\* gui.py:88  "Начало генерации..."
GEN_START_MSG ==
    << 1053, 1072, 1095, 1072, 1083, 1086, 32, 1075, 1077, 1085, 1077, 1088, 1072, 1094, 1080, 1080, 46, 46, 46 >>
\* gui.py:107  "Генерация завершена за "
GEN_DONE_PREFIX ==
    << 1043, 1077, 1085, 1077, 1088, 1072, 1094, 1080, 1103, 32, 1079, 1072, 1074, 1077, 1088, 1096, 1077, 1085, 1072, 32, 1079, 1072, 32 >>
\* gui.py:107  " сек"
GEN_DONE_SUFFIX ==
    << 32, 1089, 1077, 1082 >>
\* gui.py:124  "```markdown"
FENCE_OPEN ==
    << 96, 96, 96, 109, 97, 114, 107, 100, 111, 119, 110 >>
\* gui.py:126  "```"
FENCE_CLOSE ==
    << 96, 96, 96 >>
\* gui.py:131  "Модель не смогла извлечь текст из изображения. Попробуйте другое изображение или проверьте качество."
SENTINEL ==
    << 1052, 1086, 1076, 1077, 1083, 1100, 32, 1085, 1077, 32, 1089, 1084, 1086, 1075, 1083, 1072, 32, 1080, 1079, 1074, 1083, 1077, 1095, 1100, 32, 1090, 1077, 1082, 1089, 1090, 32, 1080, 1079, 32, 1080, 1079, 1086, 1073, 1088, 1072, 1078, 1077, 1085, 1080, 1103, 46, 32, 1055, 1086, 1087, 1088, 1086, 1073, 1091, 1081, 1090, 1077, 32, 1076, 1088, 1091, 1075, 1086, 1077, 32, 1080, 1079, 1086, 1073, 1088, 1072, 1078, 1077, 1085, 1080, 1077, 32, 1080, 1083, 1080, 32, 1087, 1088, 1086, 1074, 1077, 1088, 1100, 1090, 1077, 32, 1082, 1072, 1095, 1077, 1089, 1090, 1074, 1086, 46 >>
\* gui.py:134  "Готово!"
DONE_MSG ==
    << 1043, 1086, 1090, 1086, 1074, 1086, 33 >>
\* gui.py:137  "ОШИБКА: Недостаточно видеопамяти!"
OOM_MSG ==
    << 1054, 1064, 1048, 1041, 1050, 1040, 58, 32, 1053, 1077, 1076, 1086, 1089, 1090, 1072, 1090, 1086, 1095, 1085, 1086, 32, 1074, 1080, 1076, 1077, 1086, 1087, 1072, 1084, 1103, 1090, 1080, 33 >>
\* gui.py:141  "Ошибка: "
ERROR_PREFIX ==
    << 1054, 1096, 1080, 1073, 1082, 1072, 58, 32 >>
\* gui.py:360  "✅ Выбрана модель: "
MODEL_SELECTED_PREFIX ==
    << 9989, 32, 1042, 1099, 1073, 1088, 1072, 1085, 1072, 32, 1084, 1086, 1076, 1077, 1083, 1100, 58, 32 >>
\* gui.py:376  "✅ Выбран файл: "
FILE_SELECTED_PREFIX ==
    << 9989, 32, 1042, 1099, 1073, 1088, 1072, 1085, 32, 1092, 1072, 1081, 1083, 58, 32 >>
\* gui.py:389  "🔄 Загрузка модели..."
LOADING_MSG ==
    << 128260, 32, 1047, 1072, 1075, 1088, 1091, 1079, 1082, 1072, 32, 1084, 1086, 1076, 1077, 1083, 1080, 46, 46, 46 >>
\* gui.py:474  "✅ Модель загружена успешно."
LOADED_MSG ==
    << 9989, 32, 1052, 1086, 1076, 1077, 1083, 1100, 32, 1079, 1072, 1075, 1088, 1091, 1078, 1077, 1085, 1072, 32, 1091, 1089, 1087, 1077, 1096, 1085, 1086, 46 >>
\* gui.py:475  "Устройство: "
DEVICE_PREFIX ==
    << 1059, 1089, 1090, 1088, 1086, 1081, 1089, 1090, 1074, 1086, 58, 32 >>
\* gui.py:477  "Метод квантования: "
QUANT_PREFIX ==
    << 1052, 1077, 1090, 1086, 1076, 32, 1082, 1074, 1072, 1085, 1090, 1086, 1074, 1072, 1085, 1080, 1103, 58, 32 >>
\* gui.py:482  "❌ Ошибка загрузки: "
LOAD_ERROR_PREFIX ==
    << 10060, 32, 1054, 1096, 1080, 1073, 1082, 1072, 32, 1079, 1072, 1075, 1088, 1091, 1079, 1082, 1080, 58, 32 >>
\* gui.py:381  "Внимание"
TITLE_WARNING ==
    << 1042, 1085, 1080, 1084, 1072, 1085, 1080, 1077 >>
\* gui.py:384  "Ошибка"
TITLE_ERROR ==
    << 1054, 1096, 1080, 1073, 1082, 1072 >>
\* gui.py:381  "Пожалуйста, выберите изображение."
NO_IMAGE_TEXT ==
    << 1055, 1086, 1078, 1072, 1083, 1091, 1081, 1089, 1090, 1072, 44, 32, 1074, 1099, 1073, 1077, 1088, 1080, 1090, 1077, 32, 1080, 1079, 1086, 1073, 1088, 1072, 1078, 1077, 1085, 1080, 1077, 46 >>
\* gui.py:384  "Модель не выбрана."
NO_MODEL_TEXT ==
    << 1052, 1086, 1076, 1077, 1083, 1100, 32, 1085, 1077, 32, 1074, 1099, 1073, 1088, 1072, 1085, 1072, 46 >>
\* gui.py:392  "Не удалось загрузить модель."
LOAD_FAILED_TEXT ==
    << 1053, 1077, 32, 1091, 1076, 1072, 1083, 1086, 1089, 1100, 32, 1079, 1072, 1075, 1088, 1091, 1079, 1080, 1090, 1100, 32, 1084, 1086, 1076, 1077, 1083, 1100, 46 >>
\* gui.py:406  "Пожалуйста, введите промт."
NO_PROMPT_TEXT ==
    << 1055, 1086, 1078, 1072, 1083, 1091, 1081, 1089, 1090, 1072, 44, 32, 1074, 1074, 1077, 1076, 1080, 1090, 1077, 32, 1087, 1088, 1086, 1084, 1090, 46 >>
\* gui.py:442  " Распознан текст:"
RECOGNIZED_HEADER ==
    << 32, 1056, 1072, 1089, 1087, 1086, 1079, 1085, 1072, 1085, 32, 1090, 1077, 1082, 1089, 1090, 58 >>
\* gui.py:175  "✅ Загружено "
PROMPTS_LOADED_PREFIX ==
    << 9989, 32, 1047, 1072, 1075, 1088, 1091, 1078, 1077, 1085, 1086, 32 >>
\* gui.py:175  " шаблонов промтов из "
PROMPTS_LOADED_INFIX ==
    << 32, 1096, 1072, 1073, 1083, 1086, 1085, 1086, 1074, 32, 1087, 1088, 1086, 1084, 1090, 1086, 1074, 32, 1080, 1079, 32 >>
\* gui.py:323  "✅ Система логирования инициализирована."
LOGGING_READY_MSG ==
    << 9989, 32, 1057, 1080, 1089, 1090, 1077, 1084, 1072, 32, 1083, 1086, 1075, 1080, 1088, 1086, 1074, 1072, 1085, 1080, 1103, 32, 1080, 1085, 1080, 1094, 1080, 1072, 1083, 1080, 1079, 1080, 1088, 1086, 1074, 1072, 1085, 1072, 46 >>
\* gui.py:324  "✅ Пользовательский интерфейс создан."
UI_READY_MSG ==
    << 9989, 32, 1055, 1086, 1083, 1100, 1079, 1086, 1074, 1072, 1090, 1077, 1083, 1100, 1089, 1082, 1080, 1081, 32, 1080, 1085, 1090, 1077, 1088, 1092, 1077, 1081, 1089, 32, 1089, 1086, 1079, 1076, 1072, 1085, 46 >>
\* gui.py:337  "Папка моделей не найдена: "
MODELS_DIR_MISSING_PREFIX ==
    << 1055, 1072, 1087, 1082, 1072, 32, 1084, 1086, 1076, 1077, 1083, 1077, 1081, 32, 1085, 1077, 32, 1085, 1072, 1081, 1076, 1077, 1085, 1072, 58, 32 >>
\* gui.py:342  "В папке model_bnb4 не найдено моделей."
NO_MODELS_MSG ==
    << 1042, 32, 1087, 1072, 1087, 1082, 1077, 32, 109, 111, 100, 101, 108, 95, 98, 110, 98, 52, 32, 1085, 1077, 32, 1085, 1072, 1081, 1076, 1077, 1085, 1086, 32, 1084, 1086, 1076, 1077, 1083, 1077, 1081, 46 >>
\* gui.py:350  "Найдено моделей: "
MODELS_FOUND_PREFIX ==
    << 1053, 1072, 1081, 1076, 1077, 1085, 1086, 32, 1084, 1086, 1076, 1077, 1083, 1077, 1081, 58, 32 >>
\* gui.py:20  os.path.dirname(__file__), a directory chosen for the model:  "/app"
APP_DIR ==
    << 47, 97, 112, 112 >>
\* gui.py:22  "prompts.json"
PROMPTS_FILE_NAME ==
    << 112, 114, 111, 109, 112, 116, 115, 46, 106, 115, 111, 110 >>
\* gui.py:20  "model_bnb4"
MODEL_DIR_NAME ==
    << 109, 111, 100, 101, 108, 95, 98, 110, 98, 52 >>
\* gui.py:141  first line of traceback.format_exc():  "Traceback (most recent call last):\n"
TRACEBACK_HEAD ==
    << 84, 114, 97, 99, 101, 98, 97, 99, 107, 32, 40, 109, 111, 115, 116, 32, 114, 101, 99, 101, 110, 116, 32, 99, 97, 108, 108, 32, 108, 97, 115, 116, 41, 58, 10 >>
\* gui.py:433  "✅ Текст успешно скопирован в буфер обмена."
COPIED_MSG ==
    << 9989, 32, 1058, 1077, 1082, 1089, 1090, 32, 1091, 1089, 1087, 1077, 1096, 1085, 1086, 32, 1089, 1082, 1086, 1087, 1080, 1088, 1086, 1074, 1072, 1085, 32, 1074, 32, 1073, 1091, 1092, 1077, 1088, 32, 1086, 1073, 1084, 1077, 1085, 1072, 46 >>
\* gui.py:435  "⚠️ Нет текста для копирования."
NOTHING_TO_COPY_MSG ==
    << 9888, 65039, 32, 1053, 1077, 1090, 32, 1090, 1077, 1082, 1089, 1090, 1072, 32, 1076, 1083, 1103, 32, 1082, 1086, 1087, 1080, 1088, 1086, 1074, 1072, 1085, 1080, 1103, 46 >>

(***************************************************************************)
(* Python string operations used by gui.py                                 *)
(***************************************************************************)

\* str.isspace(): the code points str.strip() removes
PyWhitespace ==
    {9, 10, 11, 12, 13, 28, 29, 30, 31, 32, 133, 160, 5760, 8232, 8233, 8239, 8287, 12288}
        \cup (8192 .. 8202)

\* str.lstrip()
lstrip(s) ==
    LET first == IF \A i \in 1 .. Len(s) : s[i] \in PyWhitespace
                 THEN Len(s) + 1
                 ELSE CHOOSE i \in 1 .. Len(s) :
                        /\ s[i] \notin PyWhitespace
                        /\ \A j \in 1 .. (i - 1) : s[j] \in PyWhitespace
    IN  SubSeq(s, first, Len(s))

\* str.rstrip()
rstrip(s) ==
    LET last == IF \A i \in 1 .. Len(s) : s[i] \in PyWhitespace
                THEN 0
                ELSE CHOOSE i \in 1 .. Len(s) :
                       /\ s[i] \notin PyWhitespace
                       /\ \A j \in (i + 1) .. Len(s) : s[j] \in PyWhitespace
    IN  SubSeq(s, 1, last)

\* str.strip()
strip(s) ==
    rstrip(lstrip(s))

\* str.startswith(prefix)
startswith(s, prefix) ==
    /\ Len(s) >= Len(prefix)
    /\ SubSeq(s, 1, Len(prefix)) = prefix

\* str.endswith(suffix)
endswith(s, suffix) ==
    /\ Len(s) >= Len(suffix)
    /\ SubSeq(s, Len(s) - Len(suffix) + 1, Len(s)) = suffix

\* str(n) of a non-negative int
RECURSIVE IntStr(_)
IntStr(n) ==
    IF n < 10 THEN << 48 + n >> ELSE IntStr(n \div 10) \o << 48 + (n % 10) >>

\* str(t) of a tuple of two ints: "(w, h)"
TupleStr(t) ==
    << 40 >> \o IntStr(t[1]) \o << 44, 32 >> \o IntStr(t[2]) \o << 41 >>

\* str(torch.Size([a, b])): "torch.Size([a, b])"
TorchSizeStr(t) ==
    TORCH_SIZE_OPEN \o IntStr(t[1]) \o << 44, 32 >> \o IntStr(t[2]) \o TORCH_SIZE_CLOSE

\* f"{x:.1f}" of a duration given in tenths of a second
Fmt1f(tenths) ==
    IntStr(tenths \div 10) \o << 46, 48 + (tenths % 10) >>

\* two decimal digits, as strftime's %H, %M and %S
Pad2(n) ==
    << 48 + (n \div 10), 48 + (n % 10) >>

\* datetime.strftime('%H:%M:%S') of a time of day given in seconds
strftime_HMS(t) ==
    Pad2((t \div 3600) % 24) \o << 58 >> \o Pad2((t \div 60) % 60) \o << 58 >> \o Pad2(t % 60)

\* os.path.basename(path): what follows the last "/"
basename(path) ==
    LET slashes == {i \in 1 .. Len(path) : path[i] = 47}
        last == IF slashes = {} THEN 0
                ELSE CHOOSE i \in slashes : \A j \in slashes : j <= i
    IN  SubSeq(path, last + 1, Len(path))

\* os.path.join(a, b) for a relative b
path_join(a, b) ==
    a \o << 47 >> \o b

\* the lines a text ending in "\n" adds to a file that ends in "\n" (or is empty)
RECURSIVE SplitLines(_)
SplitLines(s) ==
    IF s = << >> THEN << >>
    ELSE LET nl == CHOOSE i \in 1 .. Len(s) :
                     /\ s[i] = 10
                     /\ \A j \in 1 .. (i - 1) : s[j] # 10
         IN  << SubSeq(s, 1, nl - 1) >> \o SplitLines(SubSeq(s, nl + 1, Len(s)))

\* '-' * n
RECURSIVE Dashes(_)
Dashes(n) ==
    IF n = 0 THEN << >> ELSE << 45 >> \o Dashes(n - 1)

(***************************************************************************)
(* OCRWorker.run: the image size (gui.py:48-54)                            *)
(*                                                                         *)
(* ratio = max_size / max(img.size) and dim * ratio are IEEE-754 doubles.  *)
(* With m = max(img.size), ratio is the double nearest to 1536/m: it is    *)
(* 1536/m + delta / (m * 2^s), where 2^s scales 1536/m to a 53-bit         *)
(* significand and delta is the rounding remainder.  dim * ratio is then   *)
(* rounded again, and int() truncates.  The product lies within 2^-38 of   *)
(* dim*1536/m, so int() is the floor of the exact quotient unless that     *)
(* quotient is an integer v and the rounded product falls short of v.      *)
(***************************************************************************)

max_size ==
    1536

\* max(img.size)
MaxDim(size) ==
    IF size[1] >= size[2] THEN size[1] ELSE size[2]

\* (b * 2^e) mod m, by repeated doubling
RECURSIVE MulPow2Mod(_, _, _)
MulPow2Mod(b, e, m) ==
    IF e = 0 THEN b % m ELSE MulPow2Mod((2 * b) % m, e - 1, m)

\* 2^e
RECURSIVE Pow2(_)
Pow2(e) ==
    IF e = 0 THEN 1 ELSE 2 * Pow2(e - 1)

\* the number of binary places below 2^-53 that max_size / m needs: max_size * 2^k < m <= max_size * 2^(k+1)
RECURSIVE RatioShift(_, _)
RatioShift(m, k) ==
    IF max_size * Pow2(k + 1) < m THEN RatioShift(m, k + 1) ELSE k

\* floor(log2(v)) for v >= 1
RECURSIVE Log2Floor(_)
Log2Floor(v) ==
    IF v < 2 THEN 0 ELSE 1 + Log2Floor(v \div 2)

\* delta: (ratio - max_size/m) * m * 2^s for ratio = the double nearest max_size / m (ties to even)
RatioDelta(m) ==
    LET s     == 53 + RatioShift(m, 0)
        R     == MulPow2Mod(max_size, s, m)
        qodd  == MulPow2Mod(max_size, s, 2 * m) >= m
    IN  IF 2 * R < m THEN 0 - R
        ELSE IF 2 * R > m THEN m - R
        ELSE IF qodd THEN m - R ELSE 0 - R

\* int(dim * ratio) with ratio = max_size / m   (gui.py:51-52)
ScaleDim(dim, m) ==
    LET v     == (dim * max_size) \div m
        rho   == (dim * max_size) % m
        delta == RatioDelta(m)
        e     == Log2Floor(v)
        short == dim * (0 - delta) * (IF v = Pow2(e) THEN 2 ELSE 1)
    IN  IF rho # 0 \/ delta >= 0 THEN v
        ELSE IF short <= m * Pow2(RatioShift(m, 0) + e) THEN v
        ELSE v - 1

\* whether the image is resized   (gui.py:50)
NeedsResize(size) ==
    MaxDim(size) > max_size

\* new_size = tuple(int(dim * ratio) for dim in img.size)   (gui.py:51-52)
new_size(size) ==
    << ScaleDim(size[1], MaxDim(size)), ScaleDim(size[2], MaxDim(size)) >>

(***************************************************************************)
(* OCRWorker.run: the result text (gui.py:121-131)                         *)
(***************************************************************************)

\* result = decoded[0].strip() if isinstance(decoded, list) and len(decoded) > 0 else ""
FirstDecoded(decoded) ==
    IF Len(decoded) > 0 THEN strip(decoded[1]) ELSE << >>

\* a clean-up that takes every leading run of three backticks for the opening fence
StripFenceOpen_any_fence(result) ==
    IF startswith(result, FENCE_CLOSE)
    THEN lstrip(SubSeq(result, Len(FENCE_CLOSE) + 1, Len(result)))
    ELSE result

\* if result.startswith("```markdown"): result = result[len("```markdown"):].lstrip()
StripFenceOpen(result) ==
    IF startswith(result, FENCE_OPEN)
    THEN lstrip(SubSeq(result, Len(FENCE_OPEN) + 1, Len(result)))
    ELSE result

\* a clean-up that removes the closing fence and keeps the white space before it
StripFenceClose_untrimmed(result) ==
    IF endswith(result, FENCE_CLOSE)
    THEN SubSeq(result, 1, Len(result) - Len(FENCE_CLOSE))
    ELSE result

\* if result.endswith("```"): result = result[:-len("```")].rstrip()
StripFenceClose(result) ==
    IF endswith(result, FENCE_CLOSE)
    THEN rstrip(SubSeq(result, 1, Len(result) - Len(FENCE_CLOSE)))
    ELSE result

\* the text before the length check   (gui.py:121-127)
StripFences(decoded) ==
    StripFenceClose(StripFenceOpen(FirstDecoded(decoded)))

\* a length check that also replaces a text of exactly 5 characters
CheckLength_off_by_one(result) ==
    IF Len(result) <= 5 THEN SENTINEL ELSE result

\* if len(result) < 5: result = <sentinel>   (gui.py:130-131)
CheckLength(result) ==
    IF Len(result) < 5 THEN SENTINEL ELSE result

\* the value run() passes to finished.emit on the success path   (gui.py:121-133)
Sanitize(decoded) ==
    CheckLength(StripFences(decoded))

(***************************************************************************)
(* The environment: files, user input and the values the libraries return *)
(***************************************************************************)

\* environment: an image file the user can pick in the dialog  "/a.png"
IMG_A ==
    << 47, 97, 46, 112, 110, 103 >>
\* environment: a second image file, a small one  "/b.png"
IMG_B ==
    << 47, 98, 46, 112, 110, 103 >>
\* environment: a directory under model_bnb4  "m1"
MODEL_NAME_1 ==
    << 109, 49 >>
\* environment: a directory under model_bnb4  "m2"
MODEL_NAME_2 ==
    << 109, 50 >>
\* environment: the key of the one template of prompts.json  "ocr"
TEMPLATE_NAME ==
    << 111, 99, 114 >>
\* environment: the text of the one template of prompts.json  "Read."
TEMPLATE_TEXT ==
    << 82, 101, 97, 100, 46 >>
\* environment: a prompt the user typed, whitespace only  " \n"
PROMPT_BLANK ==
    << 32, 10 >>
\* environment: a prompt the user typed  "Go"
PROMPT_TYPED ==
    << 71, 111 >>
\* environment: str(model.device)  "cuda:0"
DEVICE_NAME ==
    << 99, 117, 100, 97, 58, 48 >>
\* environment: str(model.quantization_method)  "bnb"
QUANT_NAME ==
    << 98, 110, 98 >>
\* environment: the class name of an exception a stage raises  "OSError"
EXC_TYPE ==
    << 79, 83, 69, 114, 114, 111, 114 >>
\* environment: str(e) of that exception  "bad"
EXC_TEXT ==
    << 98, 97, 100 >>
\* environment: a decoded text with both fences  " ```markdown\nHello\n``` "
DECODED_FENCED ==
    << 32, 96, 96, 96, 109, 97, 114, 107, 100, 111, 119, 110, 10, 72, 101, 108, 108, 111, 10, 96, 96, 96, 32 >>
\* environment: a decoded text under 5 characters  "Hi"
DECODED_SHORT ==
    << 72, 105 >>
\* environment: a decoded text of two lines  "Hello\nworld"
DECODED_PLAIN ==
    << 72, 101, 108, 108, 111, 10, 119, 111, 114, 108, 100 >>
\* environment: a word of a decoded text  "Hello"
WORD ==
    << 72, 101, 108, 108, 111 >>

\* None, and the empty str where the code only tests truthiness
None ==
    << >>

\* BASE_MODEL_DIR = os.path.join(os.path.dirname(__file__), "model_bnb4")   (gui.py:20)
BASE_MODEL_DIR ==
    path_join(APP_DIR, MODEL_DIR_NAME)

\* PROMPTS_FILE = os.path.join(os.path.dirname(__file__), "prompts.json")   (gui.py:22)
PROMPTS_FILE ==
    path_join(APP_DIR, PROMPTS_FILE_NAME)

\* what populate_model_combo can find on disk: no model_bnb4 folder, an empty one, two models
ModelFolders ==
    { [exists |-> FALSE, dirs |-> << >>],
      [exists |-> TRUE,  dirs |-> << >>],
      [exists |-> TRUE,  dirs |-> << MODEL_NAME_1, MODEL_NAME_2 >>] }

\* prompts.json as json.load returns it: one template
PromptTemplates ==
    << [name |-> TEMPLATE_NAME, text |-> TEMPLATE_TEXT] >>

\* what QFileDialog.getOpenFileName returns: a path, or "" when the user cancels
DialogPaths ==
    { IMG_A, << >> }

\* the image files on disk
ImagePaths ==
    { IMG_A, IMG_B }

\* what the user types into the prompt field
PromptTexts ==
    { PROMPT_BLANK }

\* Image.open(path).size of the image files: IMG_A is over max_size, IMG_B under it
ImageSize(path) ==
    IF path = IMG_A THEN << 3000, 2000 >> ELSE << 800, 600 >>

\* what processor.batch_decode returns, a list of one text or an empty list.  Decoding
\* is greedy (do_sample=False), so the text is a function of the image, the prompt
\* and the model
Decoded(path, prompt_text, mod) ==
    IF prompt_text = TEMPLATE_TEXT
    THEN (IF mod = << "model", path_join(BASE_MODEL_DIR, MODEL_NAME_1) >>
          THEN << DECODED_FENCED >> ELSE << DECODED_PLAIN >>)
    ELSE (IF mod = << "model", path_join(BASE_MODEL_DIR, MODEL_NAME_1) >>
          THEN << DECODED_SHORT >> ELSE << >>)

\* inputs['input_ids'].shape and inputs['pixel_values'].shape
InputShape ==
    << 1, 9 >>

PixelShape ==
    << 4, 1176 >>

\* time.time() - start_time around model.generate, in tenths of a second
GenerationTenths ==
    { 12 }

\* the exceptions a stage of run() or load_model can raise, other than out-of-memory
Exceptions ==
    { [type |-> EXC_TYPE, text |-> EXC_TEXT] }

\* how a raising call ends: torch.cuda.OutOfMemoryError, or another Exception
Raised ==
    { [oom |-> TRUE, type |-> << >>, text |-> << >>] }
        \cup { [oom |-> FALSE, type |-> e.type, text |-> e.text] : e \in Exceptions }

\* how load_model's from_pretrained calls end: both return, or one raises
LoadOutcomes ==
    { [ok |-> TRUE, type |-> << >>, text |-> << >>] }
        \cup { [ok |-> FALSE, type |-> e.type, text |-> e.text] : e \in Exceptions }

\* hasattr(model, 'quantization_method') for the model loaded from a path
HasQuantizationMethod(model_path) ==
    basename(model_path) = MODEL_NAME_2

\* traceback.format_exc(): its first line and its last, the frames between left out
format_exc(e) ==
    TRACEBACK_HEAD \o e.type \o << 58, 32 >> \o e.text \o << 10 >>

\* the wall clock at construction, as seconds of the day: 23:59:50
StartTime ==
    86390

(***************************************************************************)
(* The inputs of the two computations of OCRWorker.run: the size of the    *)
(* opened image (gui.py:46-52) and the decoded text (gui.py:115-131)       *)
(***************************************************************************)

\* widths and heights of image files: under, at and over max_size
ImageDims ==
    { 600, 1024, 1536, 1537, 2001, 2073, 3000, 4096 }

\* Image.open(path).size of the image files a worker can be given
ImageSizes ==
    { << w, h >> : w \in ImageDims, h \in ImageDims }

\* the pieces decoded texts are made of: white space, the two fences, a word of
\* five characters and one of two
Tokens ==
    { << 32 >>, << 10 >>, FENCE_OPEN, FENCE_CLOSE, WORD, DECODED_SHORT }

\* the number of pieces in a decoded text
MaxTokens ==
    3

\* the texts of at most n pieces
RECURSIVE Texts(_)
Texts(n) ==
    IF n = 0 THEN { << >> }
    ELSE LET shorter == Texts(n - 1)
         IN  shorter \cup { t \o token : t \in shorter, token \in Tokens }

\* what processor.batch_decode can return: an empty list, or a list of one text
DecodedLists ==
    { << >> } \cup { << t >> : t \in Texts(MaxTokens) \cup { DECODED_FENCED } }

(***************************************************************************)
(* State                                                                   *)
(***************************************************************************)

\* the number of clicks on the run button (calls of start_ocr) in a behaviour
MaxClicks ==
    3

\* the number of other user operations (file dialog, model selection, prompt edit)
MaxEdits ==
    2

\* the number of runs, in a behaviour, in which a library call raises
MaxRaises ==
    1

VARIABLES
    image_path,          \* MainWindow.image_path
    current_model_path,  \* MainWindow.current_model_path
    processor,           \* MainWindow.processor: None or << "processor", path it was loaded from >>
    model,               \* MainWindow.model: None or << "model", path it was loaded from >>
    thread,              \* MainWindow.thread: 0 for None, or an index into threads
    worker,              \* MainWindow.worker: 0 for None, or an index into workers
    combo_model,         \* MainWindow.combo_model: its items, [text, data]
    combo_index,         \* MainWindow.combo_model.currentIndex()
    combo_templates,     \* MainWindow.combo_templates.currentIndex()
    text_prompt,         \* MainWindow.text_prompt: the prompt field's text
    text_output,         \* MainWindow.text_output: the result display's text
    text_log,            \* MainWindow.text_log: the texts appended to the log view
    info_log_file,       \* the lines of info.log
    text_log_file,       \* the lines of text.log
    clipboard,           \* QApplication.clipboard(): its text
    dialogs,             \* the QMessageBox dialogs shown so far
    slot_errors,         \* exceptions that escaped a slot of MainWindow
    loads,               \* the calls of load_model so far: [path, ok]
    threads,             \* the QThread objects created so far: [state, exited, deleted]
    workers,             \* the OCRWorker objects created so far
    main_queue,          \* the events posted to the main thread: queued signals, in order
    main_pc,             \* "idle": in the event loop; "wait": inside start_ocr, in thread.wait()
    now,                 \* what the next datetime.now() returns, in seconds of the day
    clicks,              \* calls of start_ocr so far
    edits,               \* other user operations so far
    raises               \* runs that ended in an except clause so far

vars ==
    << image_path, current_model_path, processor, model, thread, worker, combo_model,
       combo_index, combo_templates, text_prompt, text_output, text_log, info_log_file,
       text_log_file, clipboard, dialogs, slot_errors, loads, threads, workers,
       main_queue, main_pc, now, clicks, edits, raises >>

\* the variables of the window no worker and no thread changes
window_vars ==
    << image_path, current_model_path, processor, model, combo_model, combo_index,
       combo_templates, text_prompt, clipboard, dialogs, slot_errors, loads, clicks, edits >>

(***************************************************************************)
(* MainWindow.log and MainWindow.display_result (gui.py:437-452).          *)
(* t is what datetime.now() returns; the clock moves a second between two  *)
(* readings, and wraps at midnight.                                        *)
(***************************************************************************)

\* the wall clock n readings after it read t
Advance(t, n) ==
    (t + n) % 86400

\* timestamped_msg = f"[{datetime.now().strftime('%H:%M:%S')}] {message}"   (gui.py:447)
timestamped_msg(t, message) ==
    << 91 >> \o strftime_HMS(t) \o << 93, 32 >> \o message

\* self.text_log.appendPlainText(timestamped_msg): the text becomes new blocks of the
\* view, one for each of its lines   (gui.py:448)
log_view(view, t, message) ==
    view \o SplitLines(timestamped_msg(t, message) \o << 10 >>)

\* log written with open(self.info_log_path, 'w'): each call truncates info.log
log_file_truncating(file, t, message) ==
    SplitLines(<< 91 >> \o strftime_HMS(t) \o << 93, 32 >> \o message \o << 10 >>)

\* with open(self.info_log_path, 'a') as f: f.write(timestamped_msg + '\n')   (gui.py:451-452)
log_file(file, t, message) ==
    file \o SplitLines(timestamped_msg(t, message) \o << 10 >>)

\* the log view after log() was called for each of messages, in order
RECURSIVE log_view_all(_, _, _)
log_view_all(view, t, messages) ==
    IF messages = << >> THEN view
    ELSE log_view_all(log_view(view, t, Head(messages)), Advance(t, 1), Tail(messages))

\* info.log after log() was called for each of messages, in order
RECURSIVE log_file_all(_, _, _)
log_file_all(file, t, messages) ==
    IF messages = << >> THEN file
    ELSE log_file_all(log_file(file, t, Head(messages)), Advance(t, 1), Tail(messages))

\* f"[{...}] Распознан текст:\n{result}\n{'-'*50}\n"   (gui.py:442)
text_log_entry(t, result) ==
    << 91 >> \o strftime_HMS(t) \o << 93 >> \o RECOGNIZED_HEADER \o << 10 >>
        \o result \o << 10 >> \o Dashes(50) \o << 10 >>

\* with open(self.text_log_path, 'a') as f: f.write(...)   (gui.py:441-442)
display_result_file(file, t, result) ==
    file \o SplitLines(text_log_entry(t, result))

\* self.text_output.setPlainText(result)   (gui.py:439)
display_result_output(old, result) ==
    result

(***************************************************************************)
(* Construction: MainWindow.__init__ (gui.py:148-168)                      *)
(***************************************************************************)

\* the items populate_model_combo adds   (gui.py:345-347)
ComboItems(folder) ==
    [i \in 1 .. Len(folder.dirs) |->
        [text |-> folder.dirs[i], data |-> path_join(BASE_MODEL_DIR, folder.dirs[i])]]

\* what __init__ logs, in order: load_prompts_from_file, _build_ui, populate_model_combo
\* (the first addItem fires currentIndexChanged, so on_model_changed logs before the count)
StartupMessages(folder) ==
    << PROMPTS_LOADED_PREFIX \o IntStr(Len(PromptTemplates)) \o PROMPTS_LOADED_INFIX \o PROMPTS_FILE,
       LOGGING_READY_MSG,
       UI_READY_MSG >>
    \o (IF ~folder.exists THEN << MODELS_DIR_MISSING_PREFIX \o BASE_MODEL_DIR >>
        ELSE IF folder.dirs = << >> THEN << NO_MODELS_MSG >>
        ELSE << MODEL_SELECTED_PREFIX \o folder.dirs[1],
                MODELS_FOUND_PREFIX \o IntStr(Len(folder.dirs)) >>)

InitWindow(folder) ==
    /\ image_path = None
    /\ current_model_path = (IF folder.dirs = << >> THEN None ELSE ComboItems(folder)[1].data)
    /\ processor = None
    /\ model = None
    /\ thread = 0
    /\ worker = 0
    /\ combo_model = ComboItems(folder)
    /\ combo_index = (IF folder.dirs = << >> THEN -1 ELSE 0)
    /\ combo_templates = 0
    /\ text_prompt = PromptTemplates[1].text
    /\ clipboard = << >>
    /\ text_output = << >>
    /\ now = Advance(StartTime, Len(StartupMessages(folder)))
    /\ text_log = log_view_all(<< >>, StartTime, StartupMessages(folder))
    /\ info_log_file = log_file_all(<< >>, StartTime, StartupMessages(folder))
    /\ text_log_file = << >>
    /\ dialogs = << >>
    /\ slot_errors = 0
    /\ loads = << >>
    /\ main_queue = << >>
    /\ main_pc = "idle"

Init ==
    /\ \E folder \in ModelFolders : InitWindow(folder)
    /\ threads = << >>
    /\ workers = << >>
    /\ clicks = 0
    /\ edits = 0
    /\ raises = 0

(***************************************************************************)
(* MainWindow: the user's operations                                       *)
(***************************************************************************)

\* a QMessageBox of start_ocr
Dialog(icon, title, text) ==
    [icon |-> icon, title |-> title, text |-> text]

\* choose_image   (gui.py:369-376)
choose_image(path) ==
    /\ main_pc = "idle"
    /\ edits < MaxEdits
    /\ edits' = edits + 1
    /\ IF path # << >>
       THEN /\ image_path' = path
            /\ text_log' = log_view(text_log, now, FILE_SELECTED_PREFIX \o basename(path))
            /\ info_log_file' = log_file(info_log_file, now, FILE_SELECTED_PREFIX \o basename(path))
            /\ now' = Advance(now, 1)
       ELSE UNCHANGED << image_path, text_log, info_log_file, now >>
    /\ UNCHANGED << current_model_path, processor, model, thread, worker, combo_model,
                    combo_index, combo_templates, text_prompt, text_output, text_log_file,
                    clipboard, dialogs,
                    slot_errors, loads, threads, workers, main_queue, main_pc, clicks, raises >>

\* an on_model_changed that drops the handle of the model selected before
on_model_changed_clearing(index) ==
    /\ main_pc = "idle"
    /\ edits < MaxEdits
    /\ edits' = edits + 1
    /\ index + 1 \in 1 .. Len(combo_model)
    /\ index # combo_index
    /\ combo_index' = index
    /\ LET model_path == combo_model[index + 1].data
       IN  IF model_path # << >>
           THEN /\ current_model_path' = model_path
                /\ text_log' = log_view(text_log, now, MODEL_SELECTED_PREFIX \o basename(model_path))
                /\ info_log_file' = log_file(info_log_file, now, MODEL_SELECTED_PREFIX \o basename(model_path))
                /\ now' = Advance(now, 1)
           ELSE UNCHANGED << current_model_path, text_log, info_log_file, now >>
    /\ processor' = None
    /\ model' = None
    /\ UNCHANGED << image_path, thread, worker, combo_model,
                    combo_templates, text_prompt, text_output, text_log_file, clipboard, dialogs,
                    slot_errors, loads, threads, workers, main_queue, main_pc, clicks, raises >>

\* on_model_changed, called when the user picks another item of combo_model   (gui.py:355-360)
on_model_changed(index) ==
    /\ main_pc = "idle"
    /\ edits < MaxEdits
    /\ edits' = edits + 1
    /\ index + 1 \in 1 .. Len(combo_model)
    /\ index # combo_index
    /\ combo_index' = index
    /\ LET model_path == combo_model[index + 1].data
       IN  IF model_path # << >>
           THEN /\ current_model_path' = model_path
                /\ text_log' = log_view(text_log, now, MODEL_SELECTED_PREFIX \o basename(model_path))
                /\ info_log_file' = log_file(info_log_file, now, MODEL_SELECTED_PREFIX \o basename(model_path))
                /\ now' = Advance(now, 1)
           ELSE UNCHANGED << current_model_path, text_log, info_log_file, now >>
    /\ UNCHANGED << image_path, processor, model, thread, worker, combo_model,
                    combo_templates, text_prompt, text_output, text_log_file, clipboard, dialogs,
                    slot_errors, loads, threads, workers, main_queue, main_pc, clicks, raises >>

\* the user types into the prompt field (a QPlainTextEdit: no handler of gui.py runs)   (gui.py:264)
edit_prompt(text) ==
    /\ main_pc = "idle"
    /\ edits < MaxEdits
    /\ edits' = edits + 1
    /\ text # text_prompt
    /\ text_prompt' = text
    /\ UNCHANGED << image_path, current_model_path, processor, model, thread, worker,
                    combo_model, combo_index, combo_templates, text_output, text_log,
                    info_log_file, text_log_file, clipboard, dialogs, slot_errors, loads,
                    threads, workers, main_queue, main_pc, now, clicks, raises >>

\* on_template_selected, called when the user picks another item of combo_templates;
\* item 0 is the placeholder, item i the i-th template   (gui.py:362-367)
on_template_selected(index) ==
    /\ main_pc = "idle"
    /\ edits < MaxEdits
    /\ edits' = edits + 1
    /\ index \in 0 .. Len(PromptTemplates)
    /\ index # combo_templates
    /\ combo_templates' = index
    /\ text_prompt' = (IF index > 0 THEN PromptTemplates[index].text ELSE text_prompt)
    /\ UNCHANGED << image_path, current_model_path, processor, model, thread, worker,
                    combo_model, combo_index, text_output, text_log, info_log_file,
                    text_log_file, clipboard, dialogs, slot_errors, loads, threads,
                    workers, main_queue, main_pc, now, clicks, raises >>

\* copy_result_to_clipboard   (gui.py:427-435)
copy_result_to_clipboard ==
    /\ main_pc = "idle"
    /\ edits < MaxEdits
    /\ edits' = edits + 1
    /\ LET text == text_output
           message == IF strip(text) # << >> THEN COPIED_MSG ELSE NOTHING_TO_COPY_MSG
       IN  /\ clipboard' = (IF strip(text) # << >> THEN text ELSE clipboard)
           /\ text_log' = log_view(text_log, now, message)
           /\ info_log_file' = log_file(info_log_file, now, message)
           /\ now' = Advance(now, 1)
    /\ UNCHANGED << image_path, current_model_path, processor, model, thread, worker,
                    combo_model, combo_index, combo_templates, text_prompt, text_output,
                    text_log_file, dialogs, slot_errors, loads, threads, workers,
                    main_queue, main_pc, clicks, raises >>

(***************************************************************************)
(* MainWindow.load_model (gui.py:454-484)                                  *)
(***************************************************************************)

\* what load_model logs and returns, given how the from_pretrained calls end
load_model(model_path, outcome) ==
    IF outcome.ok
    THEN [processor |-> << "processor", model_path >>,
          model     |-> << "model", model_path >>,
          messages  |-> << LOADED_MSG, DEVICE_PREFIX \o DEVICE_NAME >>
                        \o (IF HasQuantizationMethod(model_path)
                            THEN << QUANT_PREFIX \o QUANT_NAME >> ELSE << >>)]
    ELSE [processor |-> None,
          model     |-> None,
          messages  |-> << LOAD_ERROR_PREFIX \o outcome.text \o << 10 >> \o format_exc(outcome) >>]

(***************************************************************************)
(* MainWindow.start_ocr (gui.py:378-425)                                   *)
(***************************************************************************)

\* a QThread as start_ocr creates and starts it   (gui.py:410, 425)
NewThread ==
    [state |-> "running", exited |-> FALSE, deleted |-> FALSE]

\* an OCRWorker as start_ocr creates it and hands it the model   (gui.py:411-416)
NewWorker(prompt_text, proc, mod) ==
    [image_path |-> image_path, prompt_text |-> prompt_text,
     processor |-> proc, model |-> mod,
     size |-> << >>, img_size |-> << >>, decoded |-> << >>,
     pc |-> "start", outcome |-> "none", emitted |-> << >>, delivered |-> 0,
     deleted |-> FALSE]

\* start_ocr written without the test of line 387: it loads on every call
HandleAbsent_always(proc, mod) ==
    TRUE

\* if self.processor is None or self.model is None   (gui.py:387)
HandleAbsent(proc, mod) ==
    proc = None \/ mod = None

\* whether start_ocr goes on to create a worker: the prompt check   (gui.py:404-407)
PromptOk(prompt_text) ==
    prompt_text # << >>

\* start_ocr written without lines 400-402: the previous thread is never stopped
MustStop_never(t) ==
    FALSE

\* self.thread and self.thread.isRunning(): whether start_ocr has to stop the
\* previous thread   (gui.py:400)
MustStop(t) ==
    t # 0 /\ threads[t].state = "running"

\* gui.py:404-425: the prompt check, then the new thread and worker.  Rebinding
\* self.thread and self.worker drops the last reference to the previous objects,
\* which deletes them.  ths is threads as the first part of start_ocr left it.
Dispatch(ths, proc, mod) ==
    LET prompt_text == strip(text_prompt)
    IN  IF ~PromptOk(prompt_text)
        THEN /\ dialogs' = Append(dialogs, Dialog("warning", TITLE_WARNING, NO_PROMPT_TEXT))
             /\ threads' = ths
             /\ UNCHANGED << workers, thread, worker >>
        ELSE /\ dialogs' = dialogs
             /\ threads' = Append(IF thread = 0 THEN ths
                                  ELSE [ths EXCEPT ![thread].deleted = TRUE],
                                  NewThread)
             /\ workers' = Append(IF worker = 0 THEN workers
                                  ELSE [workers EXCEPT ![worker].deleted = TRUE],
                                  NewWorker(prompt_text, proc, mod))
             /\ thread' = Len(threads) + 1
             /\ worker' = Len(workers) + 1

\* start_ocr up to thread.wait() (gui.py:378-402), and on to its end when it does not wait
start_ocr ==
    /\ main_pc = "idle"
    /\ clicks < MaxClicks
    /\ clicks' = clicks + 1
    /\ UNCHANGED << image_path, current_model_path, combo_model, combo_index,
                    combo_templates, text_prompt, text_log_file, clipboard, main_queue,
                    edits, raises >>
    /\ IF image_path = None
       THEN /\ dialogs' = Append(dialogs, Dialog("warning", TITLE_WARNING, NO_IMAGE_TEXT))
            /\ UNCHANGED << processor, model, thread, worker, text_output, text_log,
                            info_log_file, slot_errors, loads, threads, workers, main_pc, now >>
       ELSE IF current_model_path = None
       THEN /\ dialogs' = Append(dialogs, Dialog("critical", TITLE_ERROR, NO_MODEL_TEXT))
            /\ UNCHANGED << processor, model, thread, worker, text_output, text_log,
                            info_log_file, slot_errors, loads, threads, workers, main_pc, now >>
       ELSE \E outcome \in LoadOutcomes :
            LET absent   == HandleAbsent(processor, model)
                loaded   == load_model(current_model_path, outcome)
                messages == IF absent THEN << LOADING_MSG >> \o loaded.messages ELSE << >>
                proc     == IF absent THEN loaded.processor ELSE processor
                mod      == IF absent THEN loaded.model ELSE model
            IN  /\ (~absent) => outcome.ok
                /\ processor' = proc
                /\ model' = mod
                /\ loads' = IF absent
                            THEN Append(loads, [path |-> current_model_path, ok |-> outcome.ok])
                            ELSE loads
                /\ text_log' = log_view_all(text_log, now, messages)
                /\ info_log_file' = log_file_all(info_log_file, now, messages)
                /\ now' = Advance(now, Len(messages))
                /\ IF HandleAbsent(proc, mod)
                   THEN /\ dialogs' = Append(dialogs, Dialog("critical", TITLE_ERROR, LOAD_FAILED_TEXT))
                        /\ UNCHANGED << thread, worker, text_output, slot_errors,
                                        threads, workers, main_pc >>
                   ELSE /\ text_output' = << >>
                        /\ IF thread # 0 /\ threads[thread].deleted
                           THEN \* self.thread.isRunning() on a deleted QThread: RuntimeError
                                /\ slot_errors' = slot_errors + 1
                                /\ UNCHANGED << thread, worker, dialogs, threads, workers, main_pc >>
                           ELSE IF MustStop(thread)
                           THEN \* self.thread.quit(); self.thread.wait()
                                /\ threads' = [threads EXCEPT ![thread].exited = TRUE]
                                /\ main_pc' = "wait"
                                /\ UNCHANGED << thread, worker, dialogs, slot_errors, workers >>
                           ELSE /\ Dispatch(threads, proc, mod)
                                /\ UNCHANGED << slot_errors, main_pc >>

\* start_ocr from the return of thread.wait() to its end   (gui.py:402-425)
start_ocr_resume ==
    /\ main_pc = "wait"
    /\ threads[thread].state # "running"
    /\ main_pc' = "idle"
    /\ Dispatch(threads, processor, model)
    /\ UNCHANGED << image_path, current_model_path, processor, model, combo_model,
                    combo_index, combo_templates, text_prompt, text_output, text_log,
                    info_log_file, text_log_file, clipboard, slot_errors, loads, main_queue,
                    now, clicks, edits, raises >>

(***************************************************************************)
(* OCRWorker.run (gui.py:36-143), on the worker's thread.  thread.started  *)
(* is emitted on the new thread, where the worker lives, so run is called  *)
(* there directly, before the thread's event loop.  Each action runs to    *)
(* the next call into a library that can raise.                            *)
(***************************************************************************)

Sig(name, arg) ==
    [sig |-> name, arg |-> arg]

\* a posting that discards what a worker emits after quit() was called on its thread
Posted_stopped_discarded(k, sigs) ==
    IF threads[k].exited THEN << >>
    ELSE [i \in 1 .. Len(sigs) |-> [kind |-> sigs[i].sig, k |-> k, arg |-> sigs[i].arg]]

\* the events that emitting sigs posts to the main thread: log and finished are
\* connected to slots of MainWindow, which lives there   (gui.py:419-420)
Posted(k, sigs) ==
    [i \in 1 .. Len(sigs) |-> [kind |-> sigs[i].sig, k |-> k, arg |-> sigs[i].arg]]

\* worker k, its locals now as in w, emits sigs, in order, and moves to pc.
\* finished is connected to the worker's deleteLater (gui.py:423), a deferred
\* delete on the worker's thread: it is handled once run has returned, by the
\* thread's event loop or as the thread ends
EmitFrom(k, w, sigs, pc, outcome) ==
    /\ workers' = [workers EXCEPT ![k] = [w EXCEPT !.emitted = @ \o sigs, !.pc = pc,
                                                   !.outcome = outcome,
                                                   !.deleted = (pc = "returned")]]
    /\ main_queue' = main_queue \o Posted(k, sigs)
    /\ raises' = IF outcome \in {"oom", "error"} THEN raises + 1 ELSE raises
    /\ UNCHANGED << window_vars, thread, worker, text_output, text_log, info_log_file,
                    text_log_file, threads, main_pc, now >>

\* worker k emits sigs, in order, and moves to pc, its locals unchanged
Emit(k, sigs, pc, outcome) ==
    EmitFrom(k, workers[k], sigs, pc, outcome)

Running(k) ==
    /\ k \in 1 .. Len(workers)
    /\ threads[k].state = "running"

\* run written without line 42: the early return emits no result
NoModelSignals_silent ==
    << Sig("log", NO_MODEL_LOG) >>

\* what run emits when it starts without a model   (gui.py:40-43)
NoModelSignals ==
    << Sig("log", NO_MODEL_LOG), Sig("finished", INTERNAL_ERROR_MSG) >>

\* gui.py:39-45
run_begin(k) ==
    /\ Running(k)
    /\ workers[k].pc = "start"
    /\ IF workers[k].processor = None \/ workers[k].model = None
       THEN Emit(k, NoModelSignals, "returned", "no_model")
       ELSE Emit(k, << Sig("log", OPENING_MSG) >>, "open", "none")

\* what run emits once the image is open and sized   (gui.py:50-56)
OpenSignals(size) ==
    (IF NeedsResize(size)
     THEN << Sig("log", RESIZED_PREFIX \o TupleStr(new_size(size))) >>
     ELSE << >>)
    \o << Sig("log", PREPARING_MSG) >>

\* gui.py:46-56: Image.open returns an image of this size; convert, resize.
\* size is img.size as opened, img_size is img.size as line 53 leaves it
Open(k, size) ==
    /\ Running(k)
    /\ workers[k].pc = "open"
    /\ EmitFrom(k, [workers[k] EXCEPT !.size = size,
                                      !.img_size = IF NeedsResize(size) THEN new_size(size)
                                                   ELSE size],
                OpenSignals(size), "compose", "none")

\* gui.py:46-56, for the image file of the worker
run_open(k) ==
    Open(k, ImageSize(workers[k].image_path))

\* what run emits once the inputs are on the device   (gui.py:86-88)
ComposeSignals ==
    << Sig("log", INPUT_PREFIX \o TorchSizeStr(InputShape) \o PIXELS_INFIX \o TorchSizeStr(PixelShape)),
       Sig("log", GEN_START_MSG) >>

\* gui.py:57-88: apply_chat_template, process_vision_info, processor(...), inputs.to
run_compose(k) ==
    /\ Running(k)
    /\ workers[k].pc = "compose"
    /\ Emit(k, ComposeSignals, "generate", "none")

\* gui.py:89-107: model.generate
run_generate(k, tenths) ==
    /\ Running(k)
    /\ workers[k].pc = "generate"
    /\ Emit(k, << Sig("log", GEN_DONE_PREFIX \o Fmt1f(tenths) \o GEN_DONE_SUFFIX) >>, "decode", "none")

\* what run emits with the result   (gui.py:133)
ResultSignals(decoded) ==
    << Sig("finished", Sanitize(decoded)) >>

\* gui.py:110-133: batch_decode returns decoded; the clean-up of the text,
\* finished.emit(result)
Decode(k, decoded) ==
    /\ Running(k)
    /\ workers[k].pc = "decode"
    /\ EmitFrom(k, [workers[k] EXCEPT !.decoded = decoded],
                ResultSignals(decoded), "emitted", "none")

\* gui.py:110-133, for the image, the prompt and the model of the worker
run_decode(k) ==
    Decode(k, Decoded(workers[k].image_path, workers[k].prompt_text, workers[k].model))

\* what run emits after the result   (gui.py:134)
DoneSignals ==
    << Sig("log", DONE_MSG) >>

\* gui.py:134: self.log.emit("Готово!"), and run returns
run_done(k) ==
    /\ Running(k)
    /\ workers[k].pc = "emitted"
    /\ Emit(k, DoneSignals, "returned", "ok")

\* the stages of run in which a library call can raise
RaisingStages ==
    { "open", "compose", "generate", "decode" }

\* the except clauses with line 139 written as line 143: out-of-memory ends in ""
ExceptSignals_oom_empty(raised) ==
    IF raised.oom
    THEN << Sig("log", OOM_MSG), Sig("finished", << >>) >>
    ELSE << Sig("log", ERROR_PREFIX \o raised.text \o << 10 >> \o format_exc(raised)),
            Sig("finished", << >>) >>

\* the except clauses with line 141 written without the trace
ExceptSignals_no_trace(raised) ==
    IF raised.oom
    THEN << Sig("log", OOM_MSG), Sig("finished", OOM_MSG) >>
    ELSE << Sig("log", ERROR_PREFIX \o raised.text), Sig("finished", << >>) >>

\* what the except clauses emit   (gui.py:136-143)
ExceptSignals(raised) ==
    IF raised.oom
    THEN << Sig("log", OOM_MSG), Sig("finished", OOM_MSG) >>
    ELSE << Sig("log", ERROR_PREFIX \o raised.text \o << 10 >> \o format_exc(raised)),
            Sig("finished", << >>) >>

\* gui.py:136-143: a call of the current stage raises, and run returns
run_except(k, raised) ==
    /\ Running(k)
    /\ workers[k].pc \in RaisingStages
    /\ raises < MaxRaises
    /\ Emit(k, ExceptSignals(raised), "returned", IF raised.oom THEN "oom" ELSE "error")

(***************************************************************************)
(* QThread: after run has returned the thread sits in its event loop until *)
(* quit(); a quit() that came earlier makes exec() return at once.  When   *)
(* the loop is left the thread emits finished, which is connected to its   *)
(* own deleteLater (gui.py:422), and wakes wait().                         *)
(***************************************************************************)

\* a quit() that ends the thread at once, whatever run is doing
CanFinish_interrupt(k) ==
    threads[k].exited

\* whether the thread's event loop can be left: run is over and quit() was called
CanFinish(k) ==
    /\ workers[k].pc = "returned"
    /\ threads[k].exited

thread_finish(k) ==
    /\ Running(k)
    /\ CanFinish(k)
    /\ threads' = [threads EXCEPT ![k].state = "finished"]
    /\ main_queue' = Append(main_queue, [kind |-> "thread_finished", k |-> k, arg |-> << >>])
    /\ UNCHANGED << window_vars, thread, worker, text_output, text_log, info_log_file,
                    text_log_file, workers, main_pc, now, raises >>

(***************************************************************************)
(* The main thread's event loop delivers the queued signals in order       *)
(***************************************************************************)

\* MainWindow.log as the slot of worker.log   (gui.py:444-452)
deliver_log ==
    /\ main_pc = "idle"
    /\ main_queue # << >>
    /\ Head(main_queue).kind = "log"
    /\ main_queue' = Tail(main_queue)
    /\ text_log' = log_view(text_log, now, Head(main_queue).arg)
    /\ info_log_file' = log_file(info_log_file, now, Head(main_queue).arg)
    /\ now' = Advance(now, 1)
    /\ workers' = [workers EXCEPT ![Head(main_queue).k].delivered = @ + 1]
    /\ UNCHANGED << window_vars, thread, worker, text_output, text_log_file, threads,
                    main_pc, raises >>

\* MainWindow.display_result as the slot of worker.finished   (gui.py:437-442)
deliver_finished ==
    /\ main_pc = "idle"
    /\ main_queue # << >>
    /\ Head(main_queue).kind = "finished"
    /\ main_queue' = Tail(main_queue)
    /\ text_output' = display_result_output(text_output, Head(main_queue).arg)
    /\ text_log_file' = display_result_file(text_log_file, now, Head(main_queue).arg)
    /\ now' = Advance(now, 1)
    /\ workers' = [workers EXCEPT ![Head(main_queue).k].delivered = @ + 1]
    /\ UNCHANGED << window_vars, thread, worker, text_log, info_log_file, threads,
                    main_pc, raises >>

\* thread.deleteLater as the slot of thread.finished (gui.py:422): the QThread is
\* deleted when the event loop handles the deferred delete; nothing is left to do
\* for a thread that was deleted already
deliver_thread_finished ==
    /\ main_pc = "idle"
    /\ main_queue # << >>
    /\ Head(main_queue).kind = "thread_finished"
    /\ main_queue' = Tail(main_queue)
    /\ threads' = [threads EXCEPT ![Head(main_queue).k].deleted = TRUE]
    /\ UNCHANGED << window_vars, thread, worker, text_output, text_log, info_log_file,
                    text_log_file, workers, main_pc, now, raises >>

(***************************************************************************)
(* The application                                                         *)
(***************************************************************************)

\* the workers a behaviour can hold: start_ocr creates at most one
WorkerIds ==
    1 .. MaxClicks

Next ==
    \/ \E path \in DialogPaths : choose_image(path)
    \/ \E index \in {0, 1} : on_model_changed(index)
    \/ \E index \in {0, 1} : on_template_selected(index)
    \/ \E text \in PromptTexts : edit_prompt(text)
    \/ copy_result_to_clipboard
    \/ start_ocr
    \/ start_ocr_resume
    \/ deliver_log
    \/ deliver_finished
    \/ deliver_thread_finished
    \/ \E k \in WorkerIds : run_begin(k)
    \/ \E k \in WorkerIds : run_open(k)
    \/ \E k \in WorkerIds : run_compose(k)
    \/ \E k \in WorkerIds, tenths \in GenerationTenths : run_generate(k, tenths)
    \/ \E k \in WorkerIds : run_decode(k)
    \/ \E k \in WorkerIds : run_done(k)
    \/ \E k \in WorkerIds, raised \in Raised : run_except(k, raised)
    \/ \E k \in WorkerIds : thread_finish(k)

Spec ==
    Init /\ [][Next]_vars

(***************************************************************************)
(* One run of OCRWorker.run on its own: a worker built and started as      *)
(* start_ocr does it (gui.py:410-425) on a window as __init__ leaves it,   *)
(* for every image, prompt and pair of handles it can be handed, the       *)
(* absent ones included (run tests for them, gui.py:40).  The user does    *)
(* nothing while the run lasts.                                            *)
(***************************************************************************)

\* the prompts handed to a worker: text_prompt stripped   (gui.py:404)
WorkerPrompts ==
    { TEMPLATE_TEXT, PROMPT_TYPED }

\* the (processor, model) pairs: each absent, or loaded from a folder of models
HandlePairs ==
    { << proc, mod >> :
        proc \in { None, << "processor", path_join(BASE_MODEL_DIR, MODEL_NAME_1) >> },
        mod \in { None, << "model", path_join(BASE_MODEL_DIR, MODEL_NAME_1) >>,
                  << "model", path_join(BASE_MODEL_DIR, MODEL_NAME_2) >> } }

InitRun ==
    \E folder \in { f \in ModelFolders : f.dirs # << >> }, path \in ImagePaths,
       prompt_text \in WorkerPrompts, pair \in HandlePairs :
        /\ image_path = path
        /\ current_model_path = ComboItems(folder)[1].data
        /\ processor = pair[1]
        /\ model = pair[2]
        /\ thread = 1
        /\ worker = 1
        /\ combo_model = ComboItems(folder)
        /\ combo_index = 0
        /\ combo_templates = 0
        /\ text_prompt = prompt_text
        /\ text_output = << >>
        /\ now = Advance(StartTime, Len(StartupMessages(folder)))
        /\ text_log = log_view_all(<< >>, StartTime, StartupMessages(folder))
        /\ info_log_file = log_file_all(<< >>, StartTime, StartupMessages(folder))
        /\ text_log_file = << >>
        /\ clipboard = << >>
        /\ dialogs = << >>
        /\ slot_errors = 0
        /\ loads = << >>
        /\ threads = << NewThread >>
        /\ workers = << NewWorker(prompt_text, pair[1], pair[2]) >>
        /\ main_queue = << >>
        /\ main_pc = "idle"
        /\ clicks = MaxClicks
        /\ edits = MaxEdits
        /\ raises = 0

NextRun ==
    \/ run_begin(1)
    \/ run_open(1)
    \/ run_compose(1)
    \/ \E tenths \in GenerationTenths : run_generate(1, tenths)
    \/ run_decode(1)
    \/ run_done(1)
    \/ \E raised \in Raised : run_except(1, raised)
    \/ deliver_log
    \/ deliver_finished

SpecRun ==
    InitRun /\ [][NextRun]_vars

\* one worker, started with a loaded handle, an image and the template prompt
InitOne ==
    /\ InitRun
    /\ image_path = IMG_A
    /\ text_prompt = TEMPLATE_TEXT
    /\ processor = << "processor", path_join(BASE_MODEL_DIR, MODEL_NAME_1) >>
    /\ model = << "model", path_join(BASE_MODEL_DIR, MODEL_NAME_1) >>

(***************************************************************************)
(* One run for every size the image file can have (gui.py:46-54)           *)
(***************************************************************************)

NextResize ==
    \/ run_begin(1)
    \/ \E size \in ImageSizes : Open(1, size)
    \/ run_compose(1)
    \/ \E tenths \in GenerationTenths : run_generate(1, tenths)
    \/ run_decode(1)
    \/ run_done(1)
    \/ deliver_log
    \/ deliver_finished

SpecResize ==
    InitOne /\ [][NextResize]_vars

(***************************************************************************)
(* One run for every text batch_decode can return (gui.py:115-133)         *)
(***************************************************************************)

NextSanitize ==
    \/ run_begin(1)
    \/ run_open(1)
    \/ run_compose(1)
    \/ \E tenths \in GenerationTenths : run_generate(1, tenths)
    \/ \E decoded \in DecodedLists : Decode(1, decoded)
    \/ run_done(1)
    \/ deliver_log
    \/ deliver_finished

SpecSanitize ==
    InitOne /\ [][NextSanitize]_vars

(***************************************************************************)
(* Properties                                                              *)
(***************************************************************************)

\* whether s is a prefix of t
IsPrefix(s, t) ==
    Len(s) <= Len(t) /\ SubSeq(t, 1, Len(s)) = s

\* what t holds after its first n elements
Rest(t, n) ==
    SubSeq(t, n + 1, Len(t))

\* the text of lines, each ended by "\n"
RECURSIVE JoinLines(_)
JoinLines(lines) ==
    IF lines = << >> THEN << >>
    ELSE Head(lines) \o << 10 >> \o JoinLines(Tail(lines))

\* whether line starts with a time stamp, "[HH:MM:SS]"
Stamped(line) ==
    /\ Len(line) >= 10
    /\ line[1] = 91 /\ line[4] = 58 /\ line[7] = 58 /\ line[10] = 93
    /\ \A i \in {2, 3, 5, 6, 8, 9} : line[i] \in 48 .. 57

\* how many of lines start with a time stamp
StampedLines(lines) ==
    Cardinality({ i \in 1 .. Len(lines) : Stamped(lines[i]) })

\* how many of sigs are emissions of the signal name
Count(sigs, name) ==
    Cardinality({ i \in 1 .. Len(sigs) : sigs[i].sig = name })

\* the signals of worker k that wait in the main thread's queue, in its order
RECURSIVE QueuedOf(_, _)
QueuedOf(queue, k) ==
    IF queue = << >> THEN << >>
    ELSE (IF Head(queue).k = k /\ Head(queue).kind \in { "log", "finished" }
          THEN << [sig |-> Head(queue).kind, arg |-> Head(queue).arg] >>
          ELSE << >>)
         \o QueuedOf(Tail(queue), k)

\* a step that ends a call of start_ocr: the call that did not wait, or the return
\* from thread.wait() to the end
EndsStartOcr ==
    /\ main_pc' = "idle"
    /\ clicks' = clicks + 1 \/ main_pc = "wait"

\* a step in which start_ocr shows one dialog with this text, and creates no worker
\* and no thread
Notifies(text) ==
    /\ Len(dialogs') = Len(dialogs) + 1
    /\ SubSeq(dialogs', 1, Len(dialogs)) = dialogs
    /\ dialogs'[Len(dialogs')].text = text
    /\ Len(workers') = Len(workers)
    /\ Len(threads') = Len(threads)

\* a step in which the main thread handles the queued signal kind
Delivers(kind) ==
    /\ main_queue # << >>
    /\ Head(main_queue).kind = kind
    /\ main_queue' = Tail(main_queue)

\* C1: In every reachable state at most one OCRWorker.run is executing: a worker's
\* thread is started only after the run of every worker dispatched before it has
\* returned and its thread has stopped.
C1_OneRunAtATime ==
    \A j, k \in 1 .. Len(workers) :
        j < k => workers[j].pc = "returned" /\ threads[j].state = "finished"

\* start_ocr was called while the first worker was generating: it has asked the
\* thread to quit, waits, and has started no second worker
C1_Witness ==
    /\ main_pc = "wait"
    /\ Len(workers) = 1
    /\ workers[1].pc = "generate"
    /\ threads[1].exited
    /\ threads[1].state = "running"

\* C2: Every invocation of OCRWorker.run emits finished exactly once, on the success
\* path and on every failure path: never twice, and once run has returned never
\* zero times.
C2_FinishedExactlyOnce ==
    \A k \in 1 .. Len(workers) :
        /\ Count(workers[k].emitted, "finished") <= 1
        /\ workers[k].pc = "returned" => Count(workers[k].emitted, "finished") = 1

\* a run that was started without a processor or a model has returned
C2_Witness ==
    /\ workers[1].pc = "returned"
    /\ workers[1].outcome = "no_model"
    /\ Count(workers[1].emitted, "finished") = 1

\* C3: For every worker, its signals reach the main thread in emission order, and
\* finished is the last signal it emits: no log signal is emitted after it.
C3_FinishedIsLast ==
    \A k \in 1 .. Len(workers) :
        /\ QueuedOf(main_queue, k) = Rest(workers[k].emitted, workers[k].delivered)
        /\ \A i \in 1 .. Len(workers[k].emitted) :
               workers[k].emitted[i].sig = "finished" => i = Len(workers[k].emitted)

\* C4: start_ocr creates a worker only if an image and a model are selected and the
\* stripped prompt is not empty; when one of the three is missing it shows the
\* notification of that precondition and creates no worker and no thread.  (A failed
\* load of the model has a notification of its own: it is not one of the three.)
C4_PreconditionsChecked ==
    [][ /\ Len(workers') > Len(workers) =>
              /\ image_path # None
              /\ current_model_path # None
              /\ strip(text_prompt) # << >>
        /\ EndsStartOcr /\ image_path = None => Notifies(NO_IMAGE_TEXT)
        /\ EndsStartOcr /\ image_path # None /\ current_model_path = None =>
              Notifies(NO_MODEL_TEXT)
        /\ ( /\ EndsStartOcr
             /\ image_path # None
             /\ current_model_path # None
             /\ processor' # None /\ model' # None
             /\ strip(text_prompt) = << >> ) => Notifies(NO_PROMPT_TEXT)
        /\ NO_IMAGE_TEXT # NO_MODEL_TEXT
        /\ NO_IMAGE_TEXT # NO_PROMPT_TEXT
        /\ NO_MODEL_TEXT # NO_PROMPT_TEXT
      ]_vars

\* a step in which start_ocr rejects the call for a missing precondition
Rejects ==
    /\ EndsStartOcr
    /\ Len(dialogs') = Len(dialogs) + 1
    /\ dialogs'[Len(dialogs')].text \in { NO_IMAGE_TEXT, NO_MODEL_TEXT, NO_PROMPT_TEXT }

\* C5: A start_ocr call rejected for a missing precondition has no side effects: the
\* model handle, the result display, the info log, the display log and the earlier
\* workers' threads are after the call what they were before it.
C5_RejectionHasNoSideEffects ==
    [][ Rejects => UNCHANGED << processor, model, text_output, info_log_file,
                               text_log, threads >> ]_vars

\* C6: Every worker start_ocr dispatches receives a (processor, model) pair loaded
\* from the model path that is selected at the time of the dispatch.
C6_HandleOfSelectedModel ==
    [][ Len(workers') > Len(workers) =>
            /\ workers'[Len(workers')].processor = << "processor", current_model_path >>
            /\ workers'[Len(workers')].model = << "model", current_model_path >>
      ]_vars

\* C7: start_ocr loads the model handle only when it is absent; a failed load shows
\* the critical error, creates no worker and no thread and leaves the handle absent,
\* so the next start_ocr loads again; once a load has succeeded no call loads again.
C7_LazyLoad ==
    [][ /\ Len(loads') > Len(loads) =>
              /\ processor = None \/ model = None
              /\ loads' = Append(loads, loads'[Len(loads')])
              /\ loads'[Len(loads')].path = current_model_path
              /\ clicks' = clicks + 1
        /\ (Len(loads') > Len(loads) /\ ~loads'[Len(loads')].ok) =>
              /\ processor' = None /\ model' = None
              /\ Notifies(LOAD_FAILED_TEXT)
              /\ dialogs'[Len(dialogs')].icon = "critical"
        /\ (Len(loads') > Len(loads) /\ loads'[Len(loads')].ok) =>
              /\ processor' = << "processor", current_model_path >>
              /\ model' = << "model", current_model_path >>
        /\ ( /\ clicks' = clicks + 1
             /\ image_path # None
             /\ current_model_path # None
             /\ processor = None \/ model = None ) => Len(loads') = Len(loads) + 1
        /\ (processor # None /\ model # None) =>
              UNCHANGED << processor, model, loads >>
      ]_vars

\* the first load failed, the second call loaded the model, the third call found it
C7_Witness ==
    /\ Len(loads) = 2
    /\ ~loads[1].ok
    /\ loads[2].ok
    /\ clicks = 3
    /\ processor # None /\ model # None
    /\ Len(workers) = 2

\* C8: A run that ends in out-of-memory emits the fixed message as a log signal and
\* then the same string as its one result; once both are delivered info.log holds a
\* line with the message and the result display equals it; the message is not "".
C8_OutOfMemoryMessage ==
    \A k \in 1 .. Len(workers) :
        workers[k].outcome = "oom" =>
            LET e == workers[k].emitted
                n == Len(e)
            IN  /\ n >= 2
                /\ e[n - 1] = [sig |-> "log", arg |-> OOM_MSG]
                /\ e[n] = [sig |-> "finished", arg |-> OOM_MSG]
                /\ Count(e, "finished") = 1
                /\ OOM_MSG # << >>
                /\ workers[k].delivered = n =>
                       /\ text_output = OOM_MSG
                       /\ \E i \in 1 .. Len(info_log_file) :
                              /\ Stamped(info_log_file[i])
                              /\ Rest(info_log_file[i], 11) = OOM_MSG

\* model.generate ran out of memory, and the signals of the run were delivered
C8_Witness ==
    /\ workers[1].outcome = "oom"
    /\ Len(workers[1].emitted) >= 6
    /\ workers[1].delivered = Len(workers[1].emitted)

\* C9: A run in which a stage raises another exception emits one log signal with the
\* error and its trace, then "" as its result, and no completion line; run returns.
C9_OtherFailure ==
    \A k \in 1 .. Len(workers) :
        workers[k].outcome = "error" =>
            LET e == workers[k].emitted
                n == Len(e)
            IN  /\ workers[k].pc = "returned"
                /\ n >= 2
                /\ \E x \in Exceptions :
                       e[n - 1] = [sig |-> "log",
                                   arg |-> ERROR_PREFIX \o x.text \o << 10 >>
                                           \o TRACEBACK_HEAD \o x.type \o << 58, 32 >>
                                           \o x.text \o << 10 >>]
                /\ e[n] = [sig |-> "finished", arg |-> << >>]
                /\ Count(e, "finished") = 1
                /\ Cardinality({ i \in 1 .. n : /\ e[i].sig = "log"
                                                /\ startswith(e[i].arg, ERROR_PREFIX) }) = 1
                /\ \A i \in 1 .. n : e[i] # [sig |-> "log", arg |-> DONE_MSG]

\* batch_decode raised, after the generation was logged
C9_Witness ==
    /\ workers[1].outcome = "error"
    /\ \E i \in 1 .. Len(workers[1].emitted) :
           startswith(workers[1].emitted[i].arg, GEN_DONE_PREFIX)

\* C10: Every log signal delivered appends one time-stamped line (and the further
\* lines of a message that holds line breaks) to info.log and to the log view; every
\* result delivered appends one time-stamped entry ending in the separator line to
\* text.log and replaces the result display; the files only grow at their end.
C10_LogsAppend ==
    [][ /\ IsPrefix(info_log_file, info_log_file')
        /\ IsPrefix(text_log_file, text_log_file')
        /\ Delivers("log") =>
              LET written == Rest(info_log_file', Len(info_log_file))
                  shown   == Rest(text_log', Len(text_log))
              IN  /\ IsPrefix(text_log, text_log')
                  /\ written # << >>
                  /\ Stamped(written[1])
                  /\ StampedLines(written) = 1
                  /\ Rest(JoinLines(written), 10)
                         = << 32 >> \o Head(main_queue).arg \o << 10 >>
                  /\ shown = written
                  /\ UNCHANGED << text_log_file, text_output >>
        /\ Delivers("finished") =>
              LET written == Rest(text_log_file', Len(text_log_file))
              IN  /\ Len(written) >= 3
                  /\ Stamped(written[1])
                  /\ StampedLines(written) = 1
                  /\ Rest(JoinLines(written), 10)
                         = RECOGNIZED_HEADER \o << 10 >> \o Head(main_queue).arg
                           \o << 10 >> \o Dashes(50) \o << 10 >>
                  /\ written[Len(written)] = Dashes(50)
                  /\ text_output' = Head(main_queue).arg
                  /\ UNCHANGED << info_log_file, text_log >>
      ]_vars

\* a run has succeeded and all its signals were delivered: its result is displayed
\* and written to text.log
C10_Witness ==
    \E k \in 1 .. Len(workers) :
        /\ workers[k].outcome = "ok"
        /\ workers[k].delivered = Len(workers[k].emitted)
        /\ text_output # << >>
        /\ Len(text_log_file) >= 3

(***************************************************************************)
(* The result text                                                         *)
(***************************************************************************)

\* worker k has emitted the result of a run that got through batch_decode
Succeeded(k) ==
    \/ workers[k].pc = "emitted"
    \/ workers[k].pc = "returned" /\ workers[k].outcome = "ok"

\* the text worker k passed to finished.emit
ResultOf(k) ==
    LET e == workers[k].emitted
    IN  e[CHOOSE i \in 1 .. Len(e) : e[i].sig = "finished"].arg

\* whether s is a suffix of t
IsSuffix(s, t) ==
    Len(s) <= Len(t) /\ SubSeq(t, Len(t) - Len(s) + 1, Len(t)) = s

\* s holds white space only
IsBlank(s) ==
    \A i \in 1 .. Len(s) : s[i] \in PyWhitespace

\* s has no white space at either end
IsTrimmed(s) ==
    s = << >> \/ (s[1] \notin PyWhitespace /\ s[Len(s)] \notin PyWhitespace)

\* s is white space, or white space around one occurrence of fence
IsMargin(s, fence) ==
    \/ IsBlank(s)
    \/ \E i \in 1 .. Len(s) - Len(fence) + 1 :
           /\ IsBlank(SubSeq(s, 1, i - 1))
           /\ SubSeq(s, i, i + Len(fence) - 1) = fence
           /\ IsBlank(SubSeq(s, i + Len(fence), Len(s)))

\* C11: The result a run emits on success is the sentinel message, or a text of at
\* least 5 characters with no white space at its ends that does not start with
\* "```markdown" and does not end with "```".
C11_ResultIsFenceFree ==
    \A k \in 1 .. Len(workers) :
        Succeeded(k) =>
            LET r == ResultOf(k)
            IN  \/ r = SENTINEL
                \/ /\ Len(r) >= 5
                   /\ IsTrimmed(r)
                   /\ ~ IsPrefix(FENCE_OPEN, r)
                   /\ ~ IsSuffix(FENCE_CLOSE, r)

C13_OnlyOuterFences ==
    \A k \in 1 .. Len(workers) :
        Succeeded(k) /\ ResultOf(k) # SENTINEL =>
            LET d == workers[k].decoded[1]
                r == ResultOf(k)
            IN  /\ Len(workers[k].decoded) > 0
                /\ IsTrimmed(r)
                /\ \E i \in 1 .. Len(d) :
                       LET before == SubSeq(d, 1, i - 1)
                           after == SubSeq(d, i + Len(r), Len(d))
                       IN  /\ SubSeq(d, i, i + Len(r) - 1) = r
                           /\ IsMargin(before, FENCE_OPEN)
                           /\ IsMargin(after, FENCE_CLOSE)
                           /\ IsBlank(before) => ~ IsPrefix(FENCE_OPEN, r)
                           /\ IsBlank(after) =>
                                  ~ IsSuffix(FENCE_CLOSE, r)
                /\ d = DECODED_FENCED => r = WORD

\* the fenced text was decoded and its result emitted, or a text with a fence in
\* its interior was
C13_Witness ==
    /\ Succeeded(1)
    /\ \/ workers[1].decoded = << DECODED_FENCED >> /\ ResultOf(1) = WORD
       \/ /\ workers[1].decoded = << WORD \o FENCE_OPEN \o WORD >>
          /\ ResultOf(1) = WORD \o FENCE_OPEN \o WORD

\* C14: A decoded text of at least 5 characters with no white space at its ends, no
\* "```markdown" at its start and no "```" at its end is emitted unchanged.
C14_Idempotent ==
    \A k \in 1 .. Len(workers) :
        Succeeded(k) /\ Len(workers[k].decoded) > 0 =>
            LET s == workers[k].decoded[1]
            IN  (/\ Len(s) >= 5
                 /\ IsTrimmed(s)
                 /\ ~ IsPrefix(FENCE_OPEN, s)
                 /\ ~ IsSuffix(FENCE_CLOSE, s))
                => ResultOf(k) = s

\* a text that is a result already, with backticks at its start, was decoded
C14_Witness ==
    /\ Succeeded(1)
    /\ workers[1].decoded = << FENCE_CLOSE \o WORD >>
    /\ ResultOf(1) = FENCE_CLOSE \o WORD

(***************************************************************************)
(* The image size                                                          *)
(***************************************************************************)

\* worker k has opened, converted and, where needed, resized its image
Prepared(k) ==
    workers[k].size # << >>

\* the distance of the integers a and b
Distance(a, b) ==
    IF a >= b THEN a - b ELSE b - a

\* the larger of the two dimensions of a size
Larger(size) ==
    IF size[1] >= size[2] THEN size[1] ELSE size[2]

\* C15: An image with a dimension over 1536 is resized so that its larger dimension
\* is exactly 1536 and each dimension is less than one pixel away from the old
\* dimension times 1536 / max(width, height); an image with no dimension over 1536
\* keeps its size.
C15_ResizeToMaxSize ==
    \A k \in 1 .. Len(workers) :
        Prepared(k) =>
            LET old == workers[k].size
                new == workers[k].img_size
                m == Larger(old)
            IN  IF m > 1536
                THEN /\ Larger(new) = 1536
                     /\ \A i \in 1 .. 2 : Distance(new[i] * m, old[i] * 1536) < m
                ELSE new = old

\* C16: When an image has a dimension over 1536, each new dimension is the old one
\* times 1536 / max(width, height), rounded to the nearest integer.
C16_RoundsToNearest ==
    \A k \in 1 .. Len(workers) :
        Prepared(k) /\ Larger(workers[k].size) > 1536 =>
            LET old == workers[k].size
                new == workers[k].img_size
                m == Larger(old)
            IN  \A i \in 1 .. 2 : 2 * Distance(new[i] * m, old[i] * 1536) <= m

(***************************************************************************)
(* A worker without a handle                                               *)
(***************************************************************************)

\* C17: A run that begins with no processor or no model emits one log signal with
\* the diagnostic and then one result, the empty text, and nothing of a later stage.
C17_NoModelEmptyResult ==
    \A k \in 1 .. Len(workers) :
        (/\ workers[k].pc # "start"
         /\ workers[k].processor = None \/ workers[k].model = None)
        => /\ workers[k].pc = "returned"
           /\ workers[k].size = << >>
           /\ workers[k].emitted = << [sig |-> "log", arg |-> NO_MODEL_LOG],
                                      [sig |-> "finished", arg |-> << >>] >>

(***************************************************************************)
(* Stopping the previous thread                                            *)
(***************************************************************************)

\* start_ocr has called quit() on thread k and run has not returned on it
StoppedInRun(k) ==
    /\ threads[k].exited
    /\ workers[k].pc # "returned"

\* C18: The quit() of a later start_ocr does not interrupt a run: a thread ends
\* only once its run has returned with its one result emitted; a run that was told
\* to stop keeps its thread, goes on emitting and skips no result; and start_ocr,
\* waiting for a thread that still runs, creates no worker and stays blocked.
C18_StopDoesNotInterrupt ==
    /\ [](\A k \in 1 .. Len(threads) :
              threads[k].state = "finished" =>
                  /\ workers[k].pc = "returned"
                  /\ Count(workers[k].emitted, "finished") = 1)
    /\ [][ /\ \A k \in 1 .. Len(threads) :
                  StoppedInRun(k) =>
                      /\ threads'[k].state = "running"
                      /\ ~ workers'[k].deleted \/ workers'[k].pc = "returned"
                      /\ IsPrefix(workers[k].emitted, workers'[k].emitted)
                      /\ workers'[k].pc = "returned" =>
                             Count(workers'[k].emitted, "finished") = 1
           /\ (main_pc = "wait" /\ threads[thread].state = "running") =>
                  /\ main_pc' = "wait"
                  /\ Len(workers') = Len(workers)
                  /\ Len(threads') = Len(threads)
                  /\ thread' = thread /\ worker' = worker
                  /\ main_queue' = main_queue \/ Len(main_queue') > Len(main_queue)
         ]_vars

\* start_ocr stopped a thread in the middle of a run, the run went on to its end,
\* and the next worker was created after it
C18_Witness ==
    /\ Len(workers) >= 2
    /\ threads[1].exited
    /\ threads[1].state = "finished"
    /\ workers[1].outcome = "ok"
    /\ workers[1].delivered < Len(workers[1].emitted)

(***************************************************************************)
(* The handle during a run                                                 *)
(***************************************************************************)

\* C19: While the run of a started worker has not returned, the window's processor
\* and model are present and are the pair the worker was constructed with: no
\* handler replaces or clears them.
C19_HandleSharedUnchanged ==
    \A k \in 1 .. Len(workers) :
        workers[k].pc # "returned" =>
            /\ processor # None
            /\ model # None
            /\ workers[k].processor = processor
            /\ workers[k].model = model

\* after two calls of start_ocr a run is in progress with the handle of a model
\* that is not the selected one any more
C19_Witness ==
    /\ worker # 0
    /\ workers[worker].pc \notin { "start", "returned" }
    /\ clicks >= 2
    /\ current_model_path # processor[2]

(***************************************************************************)
(* The stored thread                                                       *)
(***************************************************************************)

\* a step of start_ocr that gets to self.thread.isRunning()   (gui.py:400)
InspectsThread ==
    /\ clicks' = clicks + 1
    /\ image_path # None
    /\ current_model_path # None
    /\ processor' # None
    /\ model' # None

\* C20: When start_ocr tests self.thread.isRunning(), self.thread is not a thread
\* that an earlier start_ocr stopped and that has been scheduled for deletion, also
\* after a start_ocr that stopped the thread and returned at the empty prompt.
C20_StoredThreadIsLive ==
    [][ InspectsThread =>
            \/ thread = 0
            \/ ~ (threads[thread].exited /\ threads[thread].state = "finished")
      ]_vars

(***************************************************************************)
(* The order of the results                                                *)
(***************************************************************************)

\* display_result has run for the result of worker k
FinishedDelivered(k) ==
    \E i \in 1 .. workers[k].delivered : workers[k].emitted[i].sig = "finished"

\* a step in which display_result runs for the result of worker k
DeliversFinishedOf(k) ==
    /\ Delivers("finished")
    /\ Head(main_queue).k = k

\* C21: No result is dropped and results arrive in the order of dispatch: what a
\* worker has emitted is delivered or waits in the main thread's queue, also when a
\* later start_ocr stopped its thread; display_result runs for a worker's result
\* only after it ran for the results of the workers created before, shows the
\* result and appends it to text.log; and once the last worker's result was
\* delivered the display holds it until a later start_ocr clears the display.
C21_ResultsInDispatchOrder ==
    /\ [](/\ \A k \in 1 .. Len(workers) :
                QueuedOf(main_queue, k) = Rest(workers[k].emitted, workers[k].delivered)
          /\ \A j, k \in 1 .. Len(workers) :
                j < k /\ FinishedDelivered(k) => FinishedDelivered(j)
          /\ (workers # << >> /\ FinishedDelivered(Len(workers))) =>
                text_output \in { ResultOf(Len(workers)), << >> })
    /\ [][ \A k \in 1 .. Len(workers) :
               DeliversFinishedOf(k) =>
                   /\ \A j \in 1 .. k - 1 : FinishedDelivered(j)
                   /\ Head(main_queue).arg = ResultOf(k)
                   /\ text_output' = ResultOf(k)
                   /\ IsPrefix(text_log_file, text_log_file')
                   /\ IsSuffix(ResultOf(k) \o << 10 >> \o Dashes(50) \o << 10 >>,
                               JoinLines(Rest(text_log_file', Len(text_log_file))))
                   /\ FinishedDelivered(k)'
         ]_vars

\* start_ocr stopped the thread of worker 1 and created worker 2; both results were
\* delivered, they differ, and the display shows the second
C21_Witness ==
    /\ Len(workers) >= 2
    /\ threads[1].exited
    /\ FinishedDelivered(1)
    /\ FinishedDelivered(2)
    /\ ResultOf(1) # ResultOf(2)
    /\ text_output = ResultOf(2)

====
